---- MODULE Spec2Model ----
(***************************************************************************)
(* Model of the catalogue backend (src/server.js): the admin write         *)
(* handlers POST /admin/products, PUT /admin/products/:id and              *)
(* DELETE /admin/products/:id over the tables products and product_images, *)
(* the upload middleware in front of them, and the read handlers           *)
(* GET /products/:slug and GET /images/:id.                                *)
(*                                                                         *)
(* A handler is an async function: it runs atomically between two awaits,  *)
(* and every await is a database round trip.  One action of the model is   *)
(* one awaited query completing together with the JavaScript that runs up  *)
(* to the next await.  Requests interleave at these points only.           *)
(*                                                                         *)
(* The database (db.js, the schema) is not part of the sources.  It is     *)
(* modelled as the specification describes it: a read-committed store with *)
(* row locks taken by UPDATE, sequences for the generated ids, and no      *)
(* referential action between product_images and products (deleting a      *)
(* product leaves its image rows).  Any statement may fail.                *)
(***************************************************************************)
EXTENDS Integers, Sequences, FiniteSets, TLC

(***************************************************************************)
(* Bounds of the model.                                                    *)
(***************************************************************************)
\* number of request slots that may be in flight at the same time
MaxReq == 2
\* rows the products sequence may hand out (ids 1..MaxProductRows)
MaxProductRows == 2
\* rows the product_images sequence may hand out
MaxImageRows == 3
\* files accepted under the field 'images' (maxCount: 20 in the source)
MaxImagesField == 1
\* longest name a request carries
MaxNameLen == 2
\* create and update requests one run receives
MaxRequests == 3
\* requests one run receives when they are served one after the other
MaxSeqRequests == 2
\* updates sent at the same time to one product
MaxConcUpdates == 2

\* upload.fields([{ name: 'image', maxCount: 1 }, ...])
ImageMaxCount == 1

(***************************************************************************)
(* JavaScript values.  A value carries its type so that undefined, null,   *)
(* "", 0 and false stay distinct.  A string is a sequence of characters.   *)
(***************************************************************************)
Undef == [t |-> "undefined"]
Null == [t |-> "null"]
Str(s) == [t |-> "string", v |-> s]
Num(n) == [t |-> "number", v |-> n]
Bool(b) == [t |-> "boolean", v |-> b]

IsStr(x) == x.t = "string"

\* JavaScript truthiness: undefined, null, "", 0 and false are falsy
Truthy(x) ==
  CASE x.t = "undefined" -> FALSE
    [] x.t = "null" -> FALSE
    [] x.t = "string" -> Len(x.v) > 0
    [] x.t = "number" -> x.v # 0
    [] x.t = "boolean" -> x.v

\* the expression  x || null
OrNull(x) == IF Truthy(x) THEN x ELSE Null

\* SQL COALESCE(param, column)
COALESCE(p, col) == IF p = Null THEN col ELSE p

(***************************************************************************)
(* Characters and strings.                                                 *)
(***************************************************************************)
Whitespace == {" "}
UpperCase == {"A"}
LowerCase == {"a", "e", "u"}
Digits == {"0", "1", "2", "3", "4", "5", "6", "7", "8", "9"}
Alnum == UpperCase \cup LowerCase \cup Digits

\* String.prototype.toLowerCase on one character
LowerChar(ch) == IF ch = "A" THEN "a" ELSE ch

RECURSIVE TrimStart(_)
TrimStart(s) ==
  IF s = <<>> THEN <<>>
  ELSE IF Head(s) \in Whitespace THEN TrimStart(Tail(s)) ELSE s

RECURSIVE TrimEnd(_)
TrimEnd(s) ==
  IF s = <<>> THEN <<>>
  ELSE IF s[Len(s)] \in Whitespace THEN TrimEnd(SubSeq(s, 1, Len(s) - 1)) ELSE s

\* String.prototype.trim
Trim(s) == TrimEnd(TrimStart(s))

\* slugify's per-character step: the locale and charMap replacement, the
\* replacement character itself turned into a space, then the default
\* remove pattern /[^\w\s$*_+~.()'"!\-:@]+/g applied to what is appended
SlugifyChar(ch) ==
  LET mapped == IF ch = "é" THEN "e" ELSE ch
      spaced == IF mapped = "-" THEN " " ELSE mapped
  IN IF spaced \in Alnum \cup Whitespace \cup {"!"} THEN <<spaced>> ELSE <<>>

RECURSIVE SlugifyMap(_)
SlugifyMap(s) ==
  IF s = <<>> THEN <<>> ELSE SlugifyChar(Head(s)) \o SlugifyMap(Tail(s))

\* strict: slug.replace(/[^A-Za-z0-9\s]/g, '')
SlugifyStrict(s) == SelectSeq(s, LAMBDA ch : ch \in Alnum \cup Whitespace)

\* slug.replace(/\s+/g, replacement) with replacement '-'
RECURSIVE SlugifySpaces(_)
SlugifySpaces(s) ==
  IF s = <<>> THEN <<>>
  ELSE IF Head(s) \in Whitespace
       THEN <<"-">> \o SlugifySpaces(TrimStart(s))
       ELSE <<Head(s)>> \o SlugifySpaces(Tail(s))

SlugifyLower(s) == [i \in 1..Len(s) |-> LowerChar(s[i])]

\* const toSlug = (s) => slugify(s, { lower: true, strict: true, locale: 'fr' })
\* on a string argument (slugify throws on any other type)
toSlug(s) == SlugifyLower(SlugifySpaces(Trim(SlugifyStrict(SlugifyMap(s)))))

\* decimal digits of a positive integer, as in a template literal
RECURSIVE ToDigits(_)
ToDigits(n) ==
  LET d == <<"0", "1", "2", "3", "4", "5", "6", "7", "8", "9">>[(n % 10) + 1]
  IN IF n < 10 THEN <<d>> ELSE ToDigits(n \div 10) \o <<d>>

\* `/images/${mainImageId}`
ImagePath(n) == <<"/", "i", "m", "a", "g", "e", "s", "/">> \o ToDigits(n)

(***************************************************************************)
(* Request inputs.                                                         *)
(***************************************************************************)
\* req.body: the fields the handlers destructure (slug is sent by some
\* clients and is not read by the handlers of server.js)
BodyFields ==
  {"name", "slug", "description", "price", "stock", "category_id",
   "is_available", "image_url", "etat"}

EmptyBody == [f \in BodyFields |-> Undef]

\* files as multer's memory storage hands them over: the one a request
\* sends under 'image' and the one it sends under 'images'
ImageFiles == { [mimetype |-> "image/png", buffer |-> "png-bytes", size |-> 1] }
ImagesFiles == { [mimetype |-> "image/jpeg", buffer |-> "jpeg-bytes", size |-> 2] }

SeqsUpTo(S, n) == UNION {[1..k -> S] : k \in 0..n}

\* req.files after upload.fields([{name:'image',maxCount:1},{name:'images',maxCount:20}])
Uploads ==
  [image : SeqsUpTo(ImageFiles, ImageMaxCount),
   images : SeqsUpTo(ImagesFiles, MaxImagesField)]

NoFiles == [image |-> <<>>, images |-> <<>>]

\* const uploaded = [...(req.files?.image ...), ...(req.files?.images ...)]
uploaded(files) == files.image \o files.images

(***************************************************************************)
(* Parameters the handlers compute from req.body.                          *)
(***************************************************************************)
\* (is_available === 'on' || is_available === 'true' || is_available === true)
IsAvailable(x) ==
  \/ (IsStr(x) /\ x.v = <<"o", "n">>)
  \/ (IsStr(x) /\ x.v = <<"t", "r", "u", "e">>)
  \/ (x.t = "boolean" /\ x.v)

\* image_url?.trim()  (create)  and  image_url?.trim?.()  (update); the
\* optional call of update yields undefined for a value without trim
TrimOpt(x) == IF IsStr(x) THEN Str(Trim(x.v)) ELSE Undef

\* POST: what makes the synchronous code between BEGIN and the INSERT throw:
\* slugify rejects a name that is no string, and image_url?.trim() is not a
\* function on a number or a boolean
CreateThrows(body) ==
  \/ ~IsStr(body.name)
  \/ body.image_url.t \in {"number", "boolean"}

\* PUT: name ? toSlug(name) : undefined throws on a truthy name that is no string
UpdateThrows(body) == Truthy(body.name) /\ ~IsStr(body.name)

\* POST: const finalSlug = toSlug(name)
CreateFinalSlug(body) == Str(toSlug(body.name.v))

\* PUT: const finalSlug = (name ? toSlug(name) : undefined)
UpdateFinalSlug(body) ==
  IF Truthy(body.name) THEN Str(toSlug(body.name.v)) ELSE Undef

\* the is_available parameter written like the other columns' parameters
UpdateIsAvailable_OrNull(x) == OrNull(Bool(IsAvailable(x)))

\* PUT: the is_available parameter
UpdateIsAvailable(x) ==
  IF x.t # "undefined" THEN Bool(IsAvailable(x)) ELSE Null

\* POST: the row INSERT INTO products ... RETURNING id stores
InsertedRow(id, body) ==
  [ id |-> id,
    name |-> body.name,
    slug |-> CreateFinalSlug(body),
    description |-> OrNull(body.description),
    price |-> OrNull(body.price),
    stock |-> OrNull(body.stock),
    image_url |-> OrNull(TrimOpt(body.image_url)),
    category_id |-> OrNull(body.category_id),
    is_available |-> Bool(IsAvailable(body.is_available)),
    etat |-> OrNull(body.etat),
    main_image_id |-> Null ]

\* PUT: UPDATE products SET col = COALESCE($n, col), ... WHERE id = $10
UpdatedRow(row, body) ==
  [ row EXCEPT
      !.name = COALESCE(OrNull(body.name), @),
      !.slug = COALESCE(OrNull(UpdateFinalSlug(body)), @),
      !.description = COALESCE(OrNull(body.description), @),
      !.price = COALESCE(OrNull(body.price), @),
      !.stock = COALESCE(OrNull(body.stock), @),
      !.image_url = COALESCE(OrNull(TrimOpt(body.image_url)), @),
      !.category_id = COALESCE(OrNull(body.category_id), @),
      !.is_available = COALESCE(UpdateIsAvailable(body.is_available), @),
      !.etat = COALESCE(OrNull(body.etat), @) ]

\* MainImageRow with the image_url assignment left out
MainImageRow_KeepsUrl(row, mainImageId) ==
  [ row EXCEPT !.main_image_id = mainImageId ]

\* UPDATE products SET main_image_id=$1, image_url=$2 WHERE id=$3
MainImageRow(row, mainImageId) ==
  [ row EXCEPT
      !.main_image_id = mainImageId,
      !.image_url = Str(ImagePath(mainImageId.v)) ]

\* ImageRow with the product_id parameter taken from the wrong variable
ImageRow_WrongProduct(id, productId, f) ==
  [ id |-> id, product_id |-> productId + 1, mime_type |-> f.mimetype,
    bytes |-> f.buffer, size_bytes |-> f.size ]

\* INSERT INTO product_images (product_id, mime_type, bytes, size_bytes)
ImageRow(id, productId, f) ==
  [ id |-> id, product_id |-> productId, mime_type |-> f.mimetype,
    bytes |-> f.buffer, size_bytes |-> f.size ]

\* NextMainImageId without the guard: the last image wins
NextMainImageId_Last(mainImageId, imgId) == Num(imgId)

\* if (!mainImageId) mainImageId = imgId;
NextMainImageId(mainImageId, imgId) ==
  IF ~Truthy(mainImageId) THEN Num(imgId) ELSE mainImageId

(***************************************************************************)
(* State.                                                                  *)
(***************************************************************************)
VARIABLES
  products,               \* committed rows of products, by id
  product_images,         \* committed rows of product_images
  products_id_seq,        \* next id of products (a sequence: never rolled back)
  product_images_id_seq,  \* next id of product_images
  req,                    \* the requests in flight, by slot; a slot whose
                          \* handler has returned keeps what it answered
  started,                \* number of create/update requests received so far
  leased,                 \* connections checked out of the pool (pool.connect)
  res,                    \* last answer sent without entering a transaction
  get                     \* the GET /products/:slug or /images/:id in progress

vars == <<products, product_images, products_id_seq, product_images_id_seq,
          req, started, leased, res, get>>

Req == 1..MaxReq
ProductIds == 1..MaxProductRows

\* a slot with no request
IdleReq ==
  [ pc |-> "idle", kind |-> "none", id |-> 0, body |-> EmptyBody,
    files |-> NoFiles, productId |-> 0, n |-> 0, mainImageId |-> Null,
    txProducts |-> <<>>, txImages |-> <<>>, client |-> "none", status |-> 0 ]

\* no answer sent yet by DELETE or by the upload middleware
NoRes == [op |-> "none", id |-> 0, status |-> 0]

\* no GET in progress; rejected names the pool.query of the handler that
\* rejected, if one did
IdleGet ==
  [ op |-> "none", pc |-> "idle", slug |-> <<>>, id |-> 0, status |-> 0,
    error |-> "", rejected |-> "none", product |-> Null, images |-> <<>>,
    mime_type |-> "", bytes |-> "" ]

Init ==
  /\ products = <<>>
  /\ product_images = {}
  /\ products_id_seq = 1
  /\ product_images_id_seq = 1
  /\ req = [r \in Req |-> IdleReq]
  /\ started = 0
  /\ leased = 0
  /\ res = NoRes
  /\ get = IdleGet

(***************************************************************************)
(* The store: read committed.  A transaction's writes stay in txProducts   *)
(* and txImages until COMMIT; a row it wrote is locked until it ends.      *)
(***************************************************************************)
\* the statement of r waits on the row lock another open transaction holds
Blocked(r, id) ==
  /\ id \in DOMAIN products
  /\ \E q \in Req : q # r /\ id \in DOMAIN req[q].txProducts

\* WHERE id = id matches a row the transaction of r sees: one it wrote itself
\* or a committed one
SqlMatches(r, id) ==
  id \in DOMAIN req[r].txProducts \/ id \in DOMAIN products

\* the row WHERE id = id matches, as the transaction of r sees it
SqlRow(r, id) ==
  IF id \in DOMAIN req[r].txProducts THEN req[r].txProducts[id] ELSE products[id]

\* UPDATE products SET ... WHERE id = id, inside the transaction of r: the
\* pending writes after the statement (no row matched: nothing changes)
SqlUpdate(r, id, row) ==
  IF SqlMatches(r, id) THEN (id :> row) @@ req[r].txProducts ELSE req[r].txProducts

\* COMMIT: the pending writes become the committed rows
CommittedProducts(r) == req[r].txProducts @@ products
CommittedImages(r) ==
  product_images \cup {req[r].txImages[i] : i \in 1..Len(req[r].txImages)}

\* a catch block that answers without rolling back
Rollback_Skipped(r) ==
  /\ req[r].pc = "rollback"
  /\ req' = [req EXCEPT ![r].pc = "idle", ![r].client = "none", ![r].status = 400]
  /\ leased' = leased - 1
  /\ UNCHANGED <<products, product_images, products_id_seq, product_images_id_seq, started, res, get>>

\* ROLLBACK: the pending writes are dropped
RolledBack(rq) == [rq EXCEPT !.txProducts = <<>>, !.txImages = <<>>]

\* the handler has returned: its transaction is over, finally has run
\* client.release(), and the slot keeps the request served and the status
\* answered (0: nothing was sent) until the next request takes it
Returned(rq, status) ==
  [RolledBack(rq) EXCEPT !.pc = "idle", !.client = "none", !.status = status]

\* where the handler goes after the product statement: the image loop when
\* uploaded.length, else COMMIT
AfterProduct(rq) == IF Len(uploaded(rq.files)) > 0 THEN "image" ELSE "commit"

(***************************************************************************)
(* The handlers, one action per awaited step.                              *)
(***************************************************************************)
\* ids still to be drawn by the requests in flight
PendingProducts ==
  Cardinality({q \in Req : req[q].kind = "create" /\ req[q].pc \in {"connect", "begin", "insert"}})
RECURSIVE SumPendingImages(_)
SumPendingImages(S) ==
  IF S = {} THEN 0
  ELSE LET q == CHOOSE x \in S : TRUE
       IN (IF req[q].pc \in {"connect", "begin", "insert", "update", "image"}
           THEN Len(uploaded(req[q].files)) - req[q].n ELSE 0)
          + SumPendingImages(S \ {q})
PendingImages == SumPendingImages(Req)

\* a request reaches its handler (the upload middleware has filled req.files)
Receive(r, kind, id, body, files) ==
  /\ req[r].pc = "idle"
  /\ \A q \in Req : q < r => req[q].pc # "idle"
  /\ kind = "create" => products_id_seq + PendingProducts <= MaxProductRows
  /\ product_images_id_seq + PendingImages + Len(uploaded(files)) <= MaxImageRows + 1
  /\ req' = [req EXCEPT ![r] =
       [IdleReq EXCEPT !.pc = "connect", !.kind = kind, !.id = id,
                       !.body = body, !.files = files]]
  /\ started' = started + 1
  /\ UNCHANGED <<products, product_images, products_id_seq, product_images_id_seq,
               leased, res, get>>

\* const client = await pool.connect();
Connect(r) ==
  /\ req[r].pc = "connect"
  /\ req' = [req EXCEPT ![r].pc = "begin", ![r].client = "held"]
  /\ leased' = leased + 1
  /\ UNCHANGED <<products, product_images, products_id_seq, product_images_id_seq, started, res, get>>

\* pool.connect() rejects: the await is outside the try, nothing answers
ConnectFail(r) ==
  /\ req[r].pc = "connect"
  /\ req' = [req EXCEPT ![r] = IdleReq]
  /\ UNCHANGED <<products, product_images, products_id_seq, product_images_id_seq, started, leased, res, get>>

\* await client.query('BEGIN'); then the synchronous code up to the first
\* statement, which may throw
Begin(r) ==
  /\ req[r].pc = "begin"
  /\ req' = [req EXCEPT ![r].pc =
       IF req[r].kind = "create"
       THEN (IF CreateThrows(req[r].body) THEN "rollback" ELSE "insert")
       ELSE (IF UpdateThrows(req[r].body) THEN "rollback" ELSE "update")]
  /\ UNCHANGED <<products, product_images, products_id_seq, product_images_id_seq, started, leased, res, get>>

\* POST: INSERT INTO products ... RETURNING id; const productId = ins.rows[0].id
InsertProduct(r) ==
  /\ req[r].pc = "insert"
  /\ LET productId == products_id_seq
     IN req' = [req EXCEPT
          ![r].productId = productId,
          ![r].txProducts = productId :> InsertedRow(productId, req[r].body),
          ![r].pc = AfterProduct(req[r])]
  /\ products_id_seq' = products_id_seq + 1
  /\ UNCHANGED <<products, product_images, product_images_id_seq, started, leased, res, get>>

\* PUT: UPDATE products SET name = COALESCE($1, name), ... WHERE id = $10
UpdateProduct(r) ==
  /\ req[r].pc = "update"
  /\ ~Blocked(r, req[r].id)
  /\ LET row == UpdatedRow(SqlRow(r, req[r].id), req[r].body)
     IN req' = [req EXCEPT
          ![r].productId = req[r].id,
          ![r].txProducts = SqlUpdate(r, req[r].id, row),
          ![r].pc = AfterProduct(req[r])]
  /\ UNCHANGED <<products, product_images, products_id_seq, product_images_id_seq, started, leased, res, get>>

\* one turn of  for (const f of uploaded) { INSERT INTO product_images ... }
InsertImage(r) ==
  /\ req[r].pc = "image"
  /\ LET f == uploaded(req[r].files)[req[r].n + 1]
         imgId == product_images_id_seq
     IN req' = [req EXCEPT
          ![r].txImages = Append(@, ImageRow(imgId, req[r].productId, f)),
          ![r].mainImageId = NextMainImageId(@, imgId),
          ![r].n = @ + 1,
          ![r].pc = IF req[r].n + 1 < Len(uploaded(req[r].files)) THEN "image"
                    ELSE IF Truthy(NextMainImageId(req[r].mainImageId, imgId))
                         THEN "setmain" ELSE "commit"]
  /\ product_images_id_seq' = product_images_id_seq + 1
  /\ UNCHANGED <<products, product_images, products_id_seq, started, leased, res, get>>

\* UPDATE products SET main_image_id=$1, image_url=$2 WHERE id=$3
SetMainImage(r) ==
  /\ req[r].pc = "setmain"
  /\ ~Blocked(r, req[r].productId)
  /\ LET row == MainImageRow(SqlRow(r, req[r].productId), req[r].mainImageId)
     IN req' = [req EXCEPT
          ![r].txProducts = SqlUpdate(r, req[r].productId, row),
          ![r].pc = "commit"]
  /\ UNCHANGED <<products, product_images, products_id_seq, product_images_id_seq, started, leased, res, get>>

\* await client.query('COMMIT'); res.json({ ok: true, ... }); then, in the
\* same synchronous run, finally { client.release(); } and the return
Commit(r) ==
  /\ req[r].pc = "commit"
  /\ products' = CommittedProducts(r)
  /\ product_images' = CommittedImages(r)
  /\ req' = [req EXCEPT ![r] = Returned(req[r], 200)]
  /\ leased' = leased - 1
  /\ UNCHANGED <<products_id_seq, product_images_id_seq, started, res, get>>

\* a statement of the transaction (BEGIN, a row statement, COMMIT) fails:
\* control passes to the catch block, which awaits ROLLBACK
QueryFail(r) ==
  /\ req[r].pc \in {"begin", "insert", "update", "image", "setmain", "commit"}
  /\ req' = [req EXCEPT ![r].pc = "rollback"]
  /\ UNCHANGED <<products, product_images, products_id_seq, product_images_id_seq, started, leased, res, get>>

\* catch: await client.query('ROLLBACK'); res.status(400).json(...); then,
\* in the same synchronous run, finally { client.release(); } and the return
Rollback(r) ==
  /\ req[r].pc = "rollback"
  /\ req' = [req EXCEPT ![r] = Returned(req[r], 400)]
  /\ leased' = leased - 1
  /\ UNCHANGED <<products, product_images, products_id_seq, product_images_id_seq, started, res, get>>

\* RollbackFail in a handler without the finally block: the exception of the
\* catch block leaves the handler and the connection is not given back
RollbackFail_NoFinally(r) ==
  /\ req[r].pc = "rollback"
  /\ req' = [req EXCEPT ![r] = Returned(req[r], 0)]
  /\ UNCHANGED <<products, product_images, products_id_seq, product_images_id_seq, started, leased, res, get>>

\* ROLLBACK itself rejects (the connection is lost, the server aborts the
\* transaction): the catch block throws and no response is sent; finally
\* { client.release(); } runs in the same synchronous run
RollbackFail(r) ==
  /\ req[r].pc = "rollback"
  /\ req' = [req EXCEPT ![r] = Returned(req[r], 0)]
  /\ leased' = leased - 1
  /\ UNCHANGED <<products, product_images, products_id_seq, product_images_id_seq, started, res, get>>

\* DELETE FROM products WHERE id = $1: the table without the row of that id
DeleteFrom(table, id) == [i \in DOMAIN table \ {id} |-> table[i]]

\* DeleteProduct with an existence check: 404 when no row has that id
DeleteProduct_Checked(id) ==
  /\ ~Blocked(0, id)
  /\ products' = DeleteFrom(products, id)
  /\ res' = [op |-> "delete", id |-> id,
             status |-> IF id \in DOMAIN products THEN 200 ELSE 404]
  /\ UNCHANGED <<product_images, products_id_seq, product_images_id_seq, req, started, leased, get>>

\* DELETE /admin/products/:id: await pool.query('DELETE FROM products WHERE id = $1')
\* in its own transaction, then res.json({ ok: true }); it waits while another
\* transaction holds the row
DeleteProduct(id) ==
  /\ ~Blocked(0, id)
  /\ products' = DeleteFrom(products, id)
  /\ res' = [op |-> "delete", id |-> id, status |-> 200]
  /\ UNCHANGED <<product_images, products_id_seq, product_images_id_seq, req, started, leased, get>>

\* DELETE /admin/products/:id when pool.query rejects: catch, status 400
DeleteFail(id) ==
  /\ res' = [op |-> "delete", id |-> id, status |-> 400]
  /\ UNCHANGED <<products, product_images, products_id_seq, product_images_id_seq, req, started, leased, get>>

(***************************************************************************)
(* The public read handlers.  GET /products/:slug awaits two queries, and  *)
(* other requests may commit between them.                                 *)
(***************************************************************************)
\* ids of the rows SELECT p.* FROM products p ... WHERE p.slug = $1 returns
ProductRowsBySlug(slug) == {id \in DOMAIN products : products[id].slug = Str(slug)}

\* rows of SELECT ... FROM product_images WHERE product_id = $1
ImageRowsOf(productId) == {im \in product_images : im.product_id = productId}

\* ORDER BY id ASC
RECURSIVE OrderById(_)
OrderById(rows) ==
  IF rows = {} THEN <<>>
  ELSE LET first == CHOOSE im \in rows : \A o \in rows : im.id <= o.id
       IN <<first>> \o OrderById(rows \ {first})

\* r => ({ id: r.id, url: `/images/${r.id}`, mime_type: r.mime_type, size_bytes: r.size_bytes })
Descriptor(im) ==
  [ id |-> im.id, url |-> ImagePath(im.id), mime_type |-> im.mime_type,
    size_bytes |-> im.size_bytes ]

\* imgs.rows.map(...)
Descriptors(rows) == [i \in 1..Len(rows) |-> Descriptor(rows[i])]

\* GET /products/:slug, first query answered: 404 when no row, else
\* product = rows[0] (the query has no ORDER BY: any matching row may be first)
GetProductBySlug(slug) ==
  /\ get.pc # "images"
  /\ LET rows == ProductRowsBySlug(slug)
         request == [IdleGet EXCEPT !.op = "product", !.slug = slug]
     IN IF rows = {}
        THEN get' = [request EXCEPT !.pc = "done", !.status = 404, !.error = "not_found"]
        ELSE \E first \in rows :
               get' = [request EXCEPT !.pc = "images", !.product = products[first]]
  /\ UNCHANGED <<products, product_images, products_id_seq, product_images_id_seq,
                 req, started, leased, res>>

\* GET /products/:slug, first query rejects: outer catch, 500
GetProductFail(slug) ==
  /\ get.pc # "images"
  /\ get' = [IdleGet EXCEPT !.op = "product", !.slug = slug, !.pc = "done",
                            !.rejected = "product", !.status = 500,
                            !.error = "database_error"]
  /\ UNCHANGED <<products, product_images, products_id_seq, product_images_id_seq,
                 req, started, leased, res>>

\* GetProductImagesFail with the image query under the outer catch
GetProductImagesFail_Error ==
  /\ get.pc = "images"
  /\ get' = [get EXCEPT !.pc = "done", !.rejected = "images", !.status = 500,
                        !.error = "database_error"]
  /\ UNCHANGED <<products, product_images, products_id_seq, product_images_id_seq,
                 req, started, leased, res>>

\* GET /products/:slug, image query rejects: inner catch, product.images = []
GetProductImagesFail ==
  /\ get.pc = "images"
  /\ get' = [get EXCEPT !.pc = "done", !.rejected = "images", !.status = 200,
                        !.images = <<>>]
  /\ UNCHANGED <<products, product_images, products_id_seq, product_images_id_seq,
                 req, started, leased, res>>

\* GET /products/:slug, image query answered: res.json(product) with images
GetProductImages ==
  /\ get.pc = "images"
  /\ get' = [get EXCEPT !.pc = "done", !.status = 200,
                        !.images = Descriptors(OrderById(ImageRowsOf(get.product.id)))]
  /\ UNCHANGED <<products, product_images, products_id_seq, product_images_id_seq,
                 req, started, leased, res>>

\* any stored image row, whatever id is asked for
ImageRowsById_Any(id) == product_images

\* rows of SELECT mime_type, bytes FROM product_images WHERE id = $1
ImageRowsById(id) == {im \in product_images : im.id = id}

\* GET /images/:id, query answered: 404 when no row, else rows[0]
GetImage(id) ==
  /\ get.pc # "images"
  /\ LET rows == ImageRowsById(id)
         request == [IdleGet EXCEPT !.op = "image", !.id = id, !.pc = "done"]
     IN IF rows = {}
        THEN get' = [request EXCEPT !.status = 404, !.error = "Not found"]
        ELSE \E first \in rows :
               get' = [request EXCEPT !.status = 200, !.mime_type = first.mime_type,
                                      !.bytes = first.bytes]
  /\ UNCHANGED <<products, product_images, products_id_seq, product_images_id_seq,
                 req, started, leased, res>>

\* GET /images/:id, query rejects: 500
GetImageFail(id) ==
  /\ get.pc # "images"
  /\ get' = [IdleGet EXCEPT !.op = "image", !.id = id, !.pc = "done",
                            !.rejected = "image", !.status = 500,
                            !.error = "server_error"]
  /\ UNCHANGED <<products, product_images, products_id_seq, product_images_id_seq,
                 req, started, leased, res>>

(***************************************************************************)
(* Spec: requests interleave freely and any statement of a transaction may *)
(* fail.                                                                   *)
(***************************************************************************)
\* the bodies the interleaved requests carry
SpecBodies == { [EmptyBody EXCEPT !.name = Str(<<"A">>)] }

\* POST /admin/products reaches its handler
ReceiveCreate(r) ==
  /\ started < MaxRequests
  /\ \E body \in SpecBodies, files \in Uploads : Receive(r, "create", 0, body, files)

\* PUT /admin/products/:id reaches its handler
ReceiveUpdate(r) ==
  /\ started < MaxRequests
  /\ \E id \in ProductIds, body \in SpecBodies, files \in Uploads :
       Receive(r, "update", id, body, files)

Step(r) ==
  \/ Connect(r)
  \/ ConnectFail(r)
  \/ Begin(r)
  \/ InsertProduct(r)
  \/ UpdateProduct(r)
  \/ InsertImage(r)
  \/ SetMainImage(r)
  \/ Commit(r)
  \/ QueryFail(r)
  \/ Rollback(r)
  \/ RollbackFail(r)

Next ==
  \/ \E r \in Req : ReceiveCreate(r)
  \/ \E r \in Req : ReceiveUpdate(r)
  \/ \E r \in Req : Step(r)
  \/ \E id \in ProductIds : DeleteProduct(id)

Spec == Init /\ [][Next]_vars

(***************************************************************************)
(* Properties of Spec.                                                     *)
(***************************************************************************)
\* the step in which request r gets the answer to a successful COMMIT
Commits(r) == req[r].pc = "commit" /\ req'[r].status = 200

\* the image rows a step adds to product_images
NewImages == product_images' \ product_images

\* the row with the least id among a set of image rows
IsFirst(im, S) == im \in S /\ \A o \in S : im.id <= o.id

\* C1: a createProduct that succeeds with N uploaded files (the 'image' file
\* first, then the 'images' files) creates exactly N image rows, each with
\* product_id the new product's id, and the new product's main_image_id is
\* the id of the row of the first uploaded file if N > 0 and null if N = 0.
C1_CreateImages ==
  [][\A r \in Req : (req[r].kind = "create" /\ Commits(r)) =>
       LET N == Len(uploaded(req[r].files))
           pid == req[r].productId
       IN /\ pid \notin DOMAIN products /\ pid \in DOMAIN products'
          /\ Cardinality(NewImages) = N
          /\ \A im \in NewImages : im.product_id = pid
          /\ N = 0 => products'[pid].main_image_id = Null
          /\ N > 0 => \E im \in NewImages :
                        /\ IsFirst(im, NewImages)
                        /\ im.mime_type = uploaded(req[r].files)[1].mimetype
                        /\ im.bytes = uploaded(req[r].files)[1].buffer
                        /\ products'[pid].main_image_id = Num(im.id)]_vars

\* C1 witness: a create carrying two files has committed
C1_Witness ==
  \E r \in Req :
    /\ req[r].kind = "create" /\ req[r].pc = "idle" /\ req[r].status = 200
    /\ Len(uploaded(req[r].files)) = 2
    /\ Cardinality({im \in product_images : im.product_id = req[r].productId}) = 2

Tables == <<products, product_images>>

\* C2: a create or update that fails after its transaction began is rolled
\* back before the 400 answer is produced and leaves products and
\* product_images as they were: the answer 400 follows the ROLLBACK, at which
\* point no write of the transaction is left, and no step of a request other
\* than its successful COMMIT changes a table.
C2_FailureRollsBack ==
  [][\A r \in Req :
       /\ req'[r].status = 400 =>
            /\ req[r].pc = "rollback" \/ req[r].status = 400
            /\ req'[r].txProducts = <<>> /\ req'[r].txImages = <<>>
       /\ req'[r].pc = "rollback" /\ req[r].pc # "rollback" =>
            /\ req[r].pc \in {"begin", "insert", "update", "image", "setmain", "commit"}
            /\ req[r].status = 0
       /\ (req'[r] # req[r] /\ ~Commits(r)) => Tables' = Tables]_vars

\* C2 witness: a create failed after its product and an image were inserted,
\* and has answered 400
C2_Witness ==
  \E r \in Req :
    /\ req[r].kind = "create" /\ req[r].status = 400
    /\ req[r].productId # 0 /\ req[r].n > 0
    /\ req[r].productId \notin DOMAIN products
    /\ \A im \in product_images : im.product_id # req[r].productId

\* C3: in every committed state, a product whose main_image_id is not null
\* references an existing image row whose product_id is that product's id.
C3_MainImageBelongs ==
  \A id \in DOMAIN products :
    products[id].main_image_id # Null =>
      \E im \in product_images :
        im.id = products[id].main_image_id.v /\ im.product_id = id

\* C3 witness: two products are stored, one designating a main image while
\* an image row of the other product id exists
C3_Witness ==
  \E id \in DOMAIN products, other \in ProductIds :
    /\ other # id
    /\ products[id].main_image_id # Null
    /\ \E im \in product_images : im.product_id = other

\* C6: every image row a request commits references an existing product row
\* at the time it is committed.
C6_NoOrphanImage ==
  [][\A im \in NewImages : im.product_id \in DOMAIN products']_vars

\* C7: a successful updateProduct with M >= 1 files on a product that has K
\* images keeps the K rows, adds exactly M rows for that product and points
\* main_image_id and image_url at the first image of this request; with no
\* file it leaves main_image_id unchanged and adds no image row.
C7_UpdateImages ==
  [][\A r \in Req : (req[r].kind = "update" /\ Commits(r)) =>
       LET M == Len(uploaded(req[r].files))
           id == req[r].id
       IN /\ product_images \subseteq product_images'
          /\ Cardinality(NewImages) = M
          /\ \A im \in NewImages : im.product_id = id
          /\ (M >= 1 /\ id \in DOMAIN req[r].txProducts) =>
               \E im \in NewImages :
                 /\ IsFirst(im, NewImages)
                 /\ im.mime_type = uploaded(req[r].files)[1].mimetype
                 /\ products'[id].main_image_id = Num(im.id)
                 /\ products'[id].image_url = Str(ImagePath(im.id))
          /\ (M = 0 /\ id \in DOMAIN products) =>
               /\ id \in DOMAIN products'
               /\ products'[id].main_image_id = products[id].main_image_id]_vars

\* C7 witness: an update with files has committed on a product that keeps an
\* older image which is no longer its main image
C7_Witness ==
  \E r \in Req :
    /\ req[r].kind = "update" /\ req[r].pc = "idle" /\ req[r].status = 200
    /\ Len(uploaded(req[r].files)) >= 1
    /\ req[r].id \in DOMAIN products
    /\ products[req[r].id].main_image_id # Null
    /\ \E im \in product_images :
         im.product_id = req[r].id /\ im.id < products[req[r].id].main_image_id.v

\* the handlers that hold a connection: those past pool.connect() that have
\* not yet returned
Holders == {r \in Req : req[r].pc \notin {"idle", "connect"}}

\* C11: every connection a create or update request acquires is released
\* exactly once on every exit path (commit, rollback, failed rollback) and
\* only after the COMMIT or ROLLBACK attempt; no connection stays held by a
\* finished request: the connections out of the pool are exactly those of
\* the running handlers, a handler that holds one returns only as its COMMIT
\* or ROLLBACK settles, and one connection goes back to the pool as it does.
C11_ConnectionReleased ==
  /\ [](leased = Cardinality(Holders))
  /\ [][/\ leased' >= leased - 1
        /\ \A r \in Req :
             /\ (r \in Holders /\ req'[r].pc = "idle") =>
                  /\ req[r].pc \in {"commit", "rollback"}
                  /\ leased' = leased - 1
                  /\ req'[r].client = "none"
             /\ (req[r].pc = "rollback" /\ req'[r] # req[r]) => req'[r].pc = "idle"
             /\ (req[r].pc = "commit" /\ req'[r] # req[r]) =>
                  req'[r].pc \in {"idle", "rollback"}]_vars

\* C11 witness: a handler whose ROLLBACK failed after its INSERT has returned
\* without an answer, and the only connection out of the pool is the one a
\* second request holds
C11_Witness ==
  \E r \in Req :
    /\ req[r].pc = "idle" /\ req[r].status = 0 /\ req[r].productId # 0
    /\ leased = 1

\* C17: every create or update request that reaches its handler is answered
\* exactly once, with ok after its COMMIT succeeded and with 400 otherwise,
\* whichever step fails: a handler never ends without having answered.
C17_AlwaysAnswers ==
  [][\A r \in Req :
       /\ (req[r].pc # "idle" /\ req'[r].pc = "idle") => req'[r].status \in {200, 400}
       /\ req'[r].status = 200 => (req[r].pc = "commit" \/ req'[r] = req[r])
       /\ req[r].pc # "idle" => req[r].status = 0]_vars

(***************************************************************************)
(* SpecSeq: requests served one after the other, with every kind of field  *)
(* value a JSON or form body can carry.                                    *)
(***************************************************************************)
NameChars == {"A", "é", " ", "!"}
Names == {Str(n) : n \in SeqsUpTo(NameChars, MaxNameLen)}

\* the optional columns the handlers pass as  x || null
OptionalColumns ==
  {"description", "price", "stock", "image_url", "category_id", "etat"}

\* values tried for a column: two texts that differ; for price and stock a
\* number and a text, zero and not; for category_id an id as number and text
ColumnValues(c) ==
  CASE c \in {"description", "etat", "image_url"} -> {Str(<<"u">>), Str(<<"a">>)}
    [] c \in {"price", "stock"} -> {Num(0), Num(5), Str(<<"0">>), Str(<<"5">>)}
    [] OTHER -> {Num(5), Str(<<"5">>)}

\* values tried on create only: the empty text of a form field left blank
\* and, for image_url, a text to trim
BlankValues(c) ==
  IF c = "image_url" THEN {Str(<<>>), Str(<<" ", "u">>)} ELSE {Str(<<>>)}

AvailableValues ==
  { Str(<<"o", "n">>), Str(<<"t", "r", "u", "e">>), Bool(TRUE), Bool(FALSE),
    Str(<<"f", "a", "l", "s", "e">>), Str(<<>>) }

NamedBody == [EmptyBody EXCEPT !.name = Str(<<"A">>)]

\* bodies that set one thing on top of a base body
BodiesOver(base) ==
  UNION { {[base EXCEPT ![c] = v] : v \in ColumnValues(c)} : c \in OptionalColumns }
  \cup {[base EXCEPT !.is_available = v] : v \in AvailableValues}
  \cup {[base EXCEPT !.name = n, !.slug = sl] :
          n \in (Names \ {Str(<<>>)}) \cup {Num(7)}, sl \in {Undef, Str(<<"u">>)}}

\* bodies of a form submitted with a field left blank
BlankBodies ==
  UNION { {[NamedBody EXCEPT ![c] = v] : v \in BlankValues(c)} : c \in OptionalColumns }
  \cup {[EmptyBody EXCEPT !.name = Str(<<>>)]}

AllIdle == \A r \in Req : req[r].pc = "idle"

\* POST /admin/products, the previous request being over
ReceiveCreateSeq ==
  /\ AllIdle /\ started < MaxSeqRequests
  /\ \/ \E body \in BodiesOver(NamedBody) \cup BlankBodies :
          Receive(1, "create", 0, body, NoFiles)
     \/ \E files \in Uploads : Receive(1, "create", 0, NamedBody, files)

\* PUT /admin/products/:id, the previous request being over
ReceiveUpdateSeq ==
  /\ AllIdle /\ started < MaxSeqRequests
  /\ \E id \in ProductIds :
       \/ \E body \in BodiesOver(EmptyBody) : Receive(1, "update", id, body, NoFiles)
       \/ \E files \in Uploads : Receive(1, "update", id, EmptyBody, files)

NextSeq ==
  \/ ReceiveCreateSeq
  \/ ReceiveUpdateSeq
  \/ \E r \in Req : Step(r)

SpecSeq == Init /\ [][NextSeq]_vars

\* the step in which update r commits on a product row it matched
UpdateCommits(r) ==
  /\ req[r].kind = "update" /\ Commits(r)
  /\ req[r].id \in DOMAIN products

\* C5: for updateProduct on an existing product and each optional column:
\* a supplied value is the stored value after commit, and a column the
\* request does not supply is unchanged.
C5_SuppliedOverrides ==
  [][\A r \in Req : UpdateCommits(r) =>
       \A c \in OptionalColumns :
         products'[req[r].id][c] =
           IF req[r].body[c] # Undef THEN req[r].body[c]
           ELSE products[req[r].id][c]]_vars

\* C8: in every committed state, a product whose main_image_id is set has
\* image_url equal to "/images/<main_image_id>".
C8_UrlFollowsMainImage ==
  \A id \in DOMAIN products :
    products[id].main_image_id # Null =>
      products[id].image_url = Str(ImagePath(products[id].main_image_id.v))

\* C9: updateProduct on an existing product: omitting is_available leaves
\* the stored boolean unchanged; "on", "true" and true set it to true; the
\* boolean false sets it to false.
C9_IsAvailableUpdate ==
  [][\A r \in Req : UpdateCommits(r) =>
       LET x == req[r].body.is_available
           old == products[req[r].id].is_available
           new == products'[req[r].id].is_available
       IN /\ x = Undef => new = old
          /\ x \in {Str(<<"o", "n">>), Str(<<"t", "r", "u", "e">>), Bool(TRUE)} =>
               new = Bool(TRUE)
          /\ x = Bool(FALSE) => new = Bool(FALSE)]_vars

\* C9 witness: an update that omits is_available has committed on a product
\* that is available
C9_Witness ==
  \E r \in Req :
    /\ req[r].kind = "update" /\ req[r].pc = "idle" /\ req[r].status = 200
    /\ req[r].body.is_available = Undef
    /\ req[r].id \in DOMAIN products
    /\ products[req[r].id].is_available = Bool(TRUE)

\* C10: a successful createProduct stores slug = normalize(name); a
\* successful updateProduct stores normalize(name) if name is supplied and
\* leaves the slug unchanged if it is not, whatever slug the client sent.
C10_SlugFromName ==
  [][\A r \in Req :
       /\ (req[r].kind = "create" /\ Commits(r)) =>
            products'[req[r].productId].slug = Str(toSlug(req[r].body.name.v))
       /\ UpdateCommits(r) =>
            products'[req[r].id].slug =
              IF req[r].body.name # Undef THEN Str(toSlug(req[r].body.name.v))
              ELSE products[req[r].id].slug]_vars

\* C16: on every successful createProduct the stored is_available is true
\* iff the supplied value is true, "true" or "on", and every other optional
\* field is stored as null when it is absent or empty and as the supplied
\* value otherwise (image_url is looked at when no file is uploaded, since an
\* uploaded main image sets it).
C16_CreateDefaults ==
  [][\A r \in Req : (req[r].kind = "create" /\ Commits(r)) =>
       LET body == req[r].body
           row == products'[req[r].productId]
       IN /\ row.is_available =
               Bool(body.is_available \in
                      {Bool(TRUE), Str(<<"t", "r", "u", "e">>), Str(<<"o", "n">>)})
          /\ \A c \in OptionalColumns :
               (c = "image_url" => uploaded(req[r].files) = <<>>) =>
                 row[c] = IF body[c] \in {Undef, Str(<<>>)} THEN Null ELSE body[c]]_vars

\* what holds of the created row: is_available as C16 says, and every other
\* optional field null when its value is falsy, else the value (image_url
\* trimmed)
CreateTruthyDefaults ==
  [][\A r \in Req : (req[r].kind = "create" /\ Commits(r)) =>
       LET body == req[r].body
           row == products'[req[r].productId]
       IN /\ row.is_available =
               Bool(body.is_available \in
                      {Bool(TRUE), Str(<<"t", "r", "u", "e">>), Str(<<"o", "n">>)})
          /\ \A c \in OptionalColumns \ {"image_url"} :
               row[c] = IF Truthy(body[c]) THEN body[c] ELSE Null
          /\ uploaded(req[r].files) = <<>> =>
               row.image_url =
                 IF IsStr(body.image_url) /\ Trim(body.image_url.v) # <<>>
                 THEN Str(Trim(body.image_url.v)) ELSE Null]_vars

(***************************************************************************)
(* SpecUpdates: one product is created, then updates that supply disjoint  *)
(* fields are sent to it at the same time.  No statement fails, and every  *)
(* handler whose awaited query has an answer goes on (the event loop runs  *)
(* every settled continuation).                                            *)
(***************************************************************************)
StoredBody ==
  [NamedBody EXCEPT !.description = Str(<<"a">>), !.price = Str(<<"5">>),
                    !.stock = Num(5), !.is_available = Bool(TRUE)]

\* bodies that supply exactly one field
OneFieldBodies ==
  UNION { {[EmptyBody EXCEPT ![c] = v] : v \in ColumnValues(c)} : c \in OptionalColumns }
  \cup {[EmptyBody EXCEPT !.is_available = v] : v \in AvailableValues}

Supplied(body) == {f \in BodyFields : body[f] # Undef}

\* the updates of product id that are in flight
InFlightUpdates(id) ==
  {q \in Req : req[q].kind = "update" /\ req[q].id = id /\ req[q].pc # "idle"}

ReceiveCreateFirst ==
  /\ started = 0
  /\ Receive(1, "create", 0, StoredBody, NoFiles)

ReceiveUpdateConc(r) ==
  /\ 1 \in DOMAIN products
  /\ started < 1 + MaxConcUpdates
  /\ \E body \in OneFieldBodies :
       /\ \A q \in InFlightUpdates(1) : Supplied(body) \cap Supplied(req[q].body) = {}
       /\ Receive(r, "update", 1, body, NoFiles)

StepUpdates(r) ==
  \/ Connect(r)
  \/ Begin(r)
  \/ InsertProduct(r)
  \/ UpdateProduct(r)
  \/ Commit(r)

NextUpdates ==
  \/ ReceiveCreateFirst
  \/ \E r \in Req : ReceiveUpdateConc(r)
  \/ \E r \in Req : StepUpdates(r)

SpecUpdates ==
  Init /\ [][NextUpdates]_vars /\ \A r \in Req : WF_vars(StepUpdates(r))

\* every update received is answered 200: none waits for ever on the row lock
UpdatesAllCommit ==
  \A r \in Req : (req[r].pc = "connect") ~> (req[r].status = 200)

\* C4: two concurrent updates of one product that supply disjoint fields
\* both commit, and each supplied field holds the value its request
\* supplied: at the commit of one of them while the other is in flight, the
\* columns it supplies hold its values and the other columns keep theirs.
C4_ConcurrentDisjointUpdates ==
  [][\A r \in Req :
       (UpdateCommits(r) /\ InFlightUpdates(req[r].id) # {r}) =>
         \A c \in OptionalColumns :
           products'[req[r].id][c] =
             IF req[r].body[c] # Undef THEN req[r].body[c]
             ELSE products[req[r].id][c]]_vars

\* what holds of the concurrent updates: no update reverts a column it does
\* not supply with a truthy value, and a truthy supplied value is stored
ConcurrentTruthyUpdates ==
  [][\A r \in Req :
       (UpdateCommits(r) /\ InFlightUpdates(req[r].id) # {r}) =>
         \A c \in OptionalColumns :
           products'[req[r].id][c] =
             IF Truthy(req[r].body[c]) THEN req[r].body[c]
             ELSE products[req[r].id][c]]_vars

(***************************************************************************)
(* SpecRead: the read handlers and DELETE next to creates and updates that *)
(* are served one after the other.                                         *)
(***************************************************************************)
\* create and update requests one run of SpecRead receives
MaxReadRequests == 2

ReadNames == {Str(<<"A">>), Str(<<"u">>)}

\* req.params.slug
ReadSlugs == {<<"a">>, <<"u">>}

\* req.params.id of GET /images/:id
ImageIds == 1..(MaxImageRows + 1)

ReceiveCreateRead ==
  /\ AllIdle /\ started < MaxReadRequests
  /\ \E name \in ReadNames, files \in Uploads :
       Receive(1, "create", 0, [EmptyBody EXCEPT !.name = name], files)

ReceiveUpdateRead ==
  /\ AllIdle /\ started < MaxReadRequests
  /\ \E id \in ProductIds, files \in Uploads :
       Receive(1, "update", id, EmptyBody, files)

NextRead ==
  \/ ReceiveCreateRead
  \/ ReceiveUpdateRead
  \/ \E r \in Req : Step(r)
  \/ \E id \in ProductIds : DeleteProduct(id)
  \/ \E id \in ProductIds : DeleteFail(id)
  \/ \E slug \in ReadSlugs : GetProductBySlug(slug)
  \/ \E slug \in ReadSlugs : GetProductFail(slug)
  \/ GetProductImages
  \/ GetProductImagesFail
  \/ \E id \in ImageIds : GetImage(id)
  \/ \E id \in ImageIds : GetImageFail(id)

SpecRead == Init /\ [][NextRead]_vars

\* a step of the DELETE handler: only it answers with op "delete"
DeleteStep ==
  /\ res'.op = "delete" /\ req' = req /\ get' = get
  /\ (res' # res \/ products' # products)

\* C12: deleteProduct(id) reports success whether or not a row with that id
\* existed, removes at most that product row, leaves every other product row
\* and every image row (those of product id included) unchanged, and is
\* idempotent: deleting twice leaves the state deleting once leaves.
C12_DeleteProduct ==
  /\ [][DeleteStep =>
          /\ res'.status \in {200, 400}
          /\ product_images' = product_images
          /\ DOMAIN products' \in {DOMAIN products, DOMAIN products \ {res'.id}}
          /\ \A i \in DOMAIN products' : products'[i] = products[i]
          /\ res'.status = 200 =>
               /\ res'.id \notin DOMAIN products'
               /\ DeleteFrom(products', res'.id) = products'
          /\ res'.status = 400 => products' = products]_vars
  /\ [](\A id \in ProductIds :
          DeleteFrom(DeleteFrom(products, id), id) = DeleteFrom(products, id))

\* C12 witness: a delete has reported success for an id that never was a
\* product, while another product still has its row and image rows of the
\* deleted id are still stored
C12_Witness ==
  /\ res.op = "delete" /\ res.status = 200
  /\ res.id >= products_id_seq
  /\ products # <<>>
  /\ \E im \in product_images : im.product_id = res.id

\* the step in which GET /products/:slug gets the answer to its first query
ProductQueryStep == get.pc # "images" /\ get'.op = "product" /\ get' # get

\* the step in which GET /products/:slug gets the answer to its image query
ImageQueryStep == get.pc = "images" /\ get' # get

\* C13: getProductBySlug(slug) answers 404 not_found iff no product has
\* exactly that slug, 500 database_error iff the product query fails, and
\* otherwise the product with one descriptor per stored image of that
\* product in ascending id order, or no descriptor when the image query
\* fails, which never makes the answer an error.
C13_GetProductBySlug ==
  [][/\ ProductQueryStep =>
          /\ (get'.status = 500) = (get'.rejected = "product")
          /\ get'.status = 500 => get'.error = "database_error"
          /\ (get'.status = 404) =
               (get'.rejected # "product" /\
                \A id \in DOMAIN products : products[id].slug # Str(get'.slug))
          /\ get'.status = 404 => get'.error = "not_found"
          /\ get'.status \notin {404, 500} =>
               /\ get'.pc = "images"
               /\ \E id \in DOMAIN products :
                    get'.product = products[id] /\ products[id].slug = Str(get'.slug)
     /\ ImageQueryStep =>
          LET stored == {im \in product_images : im.product_id = get.product.id}
              images == get'.images
          IN /\ get'.status = 200 /\ get'.product = get.product /\ get'.slug = get.slug
             /\ get'.rejected = "images" => images = <<>>
             /\ get'.rejected # "images" =>
                  /\ Len(images) = Cardinality(stored)
                  /\ \A im \in stored : \E i \in 1..Len(images) :
                       /\ images[i].id = im.id
                       /\ images[i].url = ImagePath(im.id)
                       /\ images[i].mime_type = im.mime_type
                       /\ images[i].size_bytes = im.size_bytes
                  /\ \A i \in 1..(Len(images) - 1) : images[i].id < images[i + 1].id]_vars

\* C13 witness: a product with three stored images has been returned with
\* its three descriptors
C13_Witness ==
  /\ get.op = "product" /\ get.status = 200 /\ get.rejected = "none"
  /\ Len(get.images) = 3

\* a second C13 case reached: the image query failed and the product was
\* returned without images although it has some
ImagesFetchFailed ==
  /\ get.op = "product" /\ get.status = 200 /\ get.rejected = "images"
  /\ \E im \in product_images : im.product_id = get.product.id

\* the step in which GET /images/:id answers
ImageStep == get.pc # "images" /\ get'.op = "image" /\ get' # get

\* C15: image content is immutable: no step changes or removes an image
\* row, every image row a request commits carries the MIME type and bytes of
\* one of its uploaded files, image ids are never reused, and getImageBytes(id)
\* returns the MIME type and bytes of the row with that id, or 404 when no
\* row has it.
C15_ImageImmutable ==
  /\ [][/\ product_images \subseteq product_images'
        /\ \A im \in NewImages :
             /\ \A old \in product_images : old.id # im.id
             /\ \E r \in Req : \E i \in 1..Len(uploaded(req[r].files)) :
                  /\ Commits(r)
                  /\ im.mime_type = uploaded(req[r].files)[i].mimetype
                  /\ im.bytes = uploaded(req[r].files)[i].buffer
        /\ (ImageStep /\ get'.rejected = "none") =>
             /\ (\A im \in product_images : im.id # get'.id) => get'.status = 404
             /\ \A im \in product_images :
                  im.id = get'.id =>
                    /\ get'.status = 200
                    /\ get'.mime_type = im.mime_type
                    /\ get'.bytes = im.bytes]_vars

\* C15 witness: the first image of a product is served after a later update
\* gave that product another main image
C15_Witness ==
  /\ get.op = "image" /\ get.status = 200 /\ get.id = 1
  /\ \E im \in product_images :
       /\ im.id = 1 /\ get.bytes = im.bytes
       /\ im.product_id \in DOMAIN products
       /\ products[im.product_id].main_image_id \notin {Null, Num(1)}

(***************************************************************************)
(* SpecCreateRead: products are created and read by slug; none is updated  *)
(* or deleted.                                                             *)
(***************************************************************************)
\* the steps of the POST handler
StepCreate(r) ==
  \/ Connect(r)
  \/ ConnectFail(r)
  \/ Begin(r)
  \/ InsertProduct(r)
  \/ InsertImage(r)
  \/ SetMainImage(r)
  \/ Commit(r)
  \/ QueryFail(r)
  \/ Rollback(r)
  \/ RollbackFail(r)

NextCreateRead ==
  \/ ReceiveCreateRead
  \/ \E r \in Req : StepCreate(r)
  \/ \E slug \in ReadSlugs : GetProductBySlug(slug)
  \/ \E slug \in ReadSlugs : GetProductFail(slug)
  \/ GetProductImages
  \/ GetProductImagesFail

SpecCreateRead == Init /\ [][NextCreateRead]_vars

\* C18: after a createProduct with name n has answered ok with an id, and
\* while that product is neither updated nor deleted,
\* getProductBySlug(normalize(n)) returns the product with that id, whatever
\* other products exist, those whose names normalize to the same slug
\* included.
C18_CreateThenRead ==
  [][(ProductQueryStep /\ get'.rejected = "none") =>
       \A id \in DOMAIN products :
         toSlug(products[id].name.v) = get'.slug =>
           get'.pc = "images" /\ get'.product.id = id]_vars

\* what holds of the round trip: a product whose slug no other product has
\* is the one returned for it
UniqueSlugRoundTrip ==
  [][(ProductQueryStep /\ get'.rejected = "none") =>
       \A id \in DOMAIN products :
         (/\ toSlug(products[id].name.v) = get'.slug
          /\ \A o \in DOMAIN products : o # id => products[o].slug # products[id].slug) =>
           get'.pc = "images" /\ get'.product.id = id]_vars

(***************************************************************************)
(* SpecUpload: requests pass the upload middleware before their handler;   *)
(* some carry a file above the size limit.                                 *)
(***************************************************************************)
\* create and update requests one run of SpecUpload lets through
MaxUploadRequests == 2

\* limits: { fileSize: 5 * 1024 * 1024 }
FileSizeLimit == 5 * 1024 * 1024

\* files a client may send under 'image': one within the limit and one
\* above it
SentImageFiles ==
  ImageFiles \cup
  { [mimetype |-> "image/png", buffer |-> "large-bytes", size |-> FileSizeLimit + 1] }

\* files a client may send under 'images'
SentImagesFiles ==
  ImagesFiles \cup
  { [mimetype |-> "image/jpeg", buffer |-> "large-bytes", size |-> FileSizeLimit + 1] }

\* the multipart files of a request as sent, before the middleware
SentUploads ==
  [image : SeqsUpTo(SentImageFiles, ImageMaxCount),
   images : SeqsUpTo(SentImagesFiles, MaxImagesField)]

\* an upload middleware without limits
UploadAccepts_NoLimit(files) == TRUE

\* multer with limits.fileSize: next() is called without error only when no
\* file is larger than the limit
UploadAccepts(files) ==
  \A i \in 1..Len(uploaded(files)) : uploaded(files)[i].size <= FileSizeLimit

\* upload.fields(...) passes an error to next(err): the handler is skipped
\* and the framework's error handler answers 500
UploadReject(files) ==
  /\ ~UploadAccepts(files)
  /\ res' = [op |-> "upload", id |-> 0, status |-> 500]
  /\ UNCHANGED <<products, product_images, products_id_seq, product_images_id_seq,
                 req, started, leased, get>>

\* POST /admin/products: upload.fields(...), then the handler
ReceiveCreateUpload(r) ==
  /\ started < MaxUploadRequests
  /\ \E files \in SentUploads :
       UploadAccepts(files) /\ Receive(r, "create", 0, NamedBody, files)

\* PUT /admin/products/:id: upload.fields(...), then the handler
ReceiveUpdateUpload(r) ==
  /\ started < MaxUploadRequests
  /\ \E id \in ProductIds, files \in SentUploads :
       UploadAccepts(files) /\ Receive(r, "update", id, EmptyBody, files)

NextUpload ==
  \/ \E r \in Req : ReceiveCreateUpload(r)
  \/ \E r \in Req : ReceiveUpdateUpload(r)
  \/ \E files \in SentUploads : UploadReject(files)
  \/ \E r \in Req : Step(r)

SpecUpload == Init /\ [][NextUpload]_vars

\* C14: a create or update request in which a file exceeds 5 MiB is rejected
\* at the upload boundary before the handler runs: no handler ever runs with
\* such a file, no image row ever stores one, and the step that rejects the
\* request acquires no connection, begins no transaction and changes no row.
C14_UploadLimit ==
  /\ [](\A r \in Req : \A i \in 1..Len(uploaded(req[r].files)) :
          uploaded(req[r].files)[i].size <= 5 * 1024 * 1024)
  /\ [](\A im \in product_images : im.size_bytes <= 5 * 1024 * 1024)
  /\ [][(res'.op = "upload" /\ res' # res) =>
          /\ req' = req /\ leased' = leased
          /\ Tables' = Tables
          /\ products_id_seq' = products_id_seq
          /\ product_images_id_seq' = product_images_id_seq]_vars

\* C14 witness: a request was rejected by the upload middleware while
\* another request holds a connection, and a file within the limit is stored
C14_Witness ==
  /\ res.op = "upload" /\ res.status = 500
  /\ leased = 1
  /\ product_images # {}
====
